---- MODULE Spec2Model ----
(***************************************************************************)
(* A model of the RAG backend (src/src/app.service.ts and                  *)
(* src/src/app.controller.ts): the upload handler (save, parse and chunk,  *)
(* load the FAISS index, add, save), the chat handler (load, similarity    *)
(* search, prompt construction, model invocation) and the persisted vector *)
(* index they share.                                                       *)
(*                                                                         *)
(* Every request is a sequence of steps separated by the handler's awaits  *)
(* on I/O (index load, embedding call, index save, model call); the steps  *)
(* of different requests interleave freely, as they do on the Node event   *)
(* loop.  The external collaborators (embedder, FAISS store, generation    *)
(* model) succeed or fail nondeterministically.  A text is a sequence of   *)
(* characters.  Only .txt extraction is modelled (the file content is the  *)
(* text); every other extension is the unsupported-type branch.            *)
(***************************************************************************)
EXTENDS Integers, Sequences, FiniteSets, TLC

\* ------------------------------------------------------------------ bounds

\* Number of request slots (requests that arrive during one run).
MaxCalls == 2

\* Texts handed to the chunker alone have up to MaxChunks * chunkSize + 1 characters.
MaxChunks == 2

\* ------------------------------------------------------- program constants

\* app.service.ts:71   const chunkSize = 2000;
chunkSize == 2000

\* app.service.ts:116  vectorStore.similaritySearch(query, 4)
TopK == 4

\* --------------------------------------------------------------- helpers

Min(a, b) == IF a <= b THEN a ELSE b

Range(s) == {s[i] : i \in DOMAIN s}

\* A text of n characters over {"a", "b", "c"}, the character at position i
\* (1-based) chosen by the pattern number p.
MkText(n, p) == [i \in 1..n |-> IF (i * p) % 3 = 0 THEN "c" ELSE IF (i * p) % 3 = 1 THEN "a" ELSE "b"]

\* String.prototype.slice(i, j) on a text, i and j 0-based, j clamped to the length.
slice(text, i, j) == SubSeq(text, i + 1, Min(j, Len(text)))

\* ------------------------------------------------------- parseAndChunkFile

\* The off-by-one chunker: every chunk one character short of the next start.
chunkTextShort(text, source) ==
  LET n == IF Len(text) = 0 THEN 0 ELSE ((Len(text) - 1) \div chunkSize) + 1
  IN  [k \in 1..n |-> [text   |-> slice(text, (k - 1) * chunkSize, k * chunkSize - 1),
                       source |-> source]]

\* app.service.ts:71-79: for (i = 0; i < text.length; i += chunkSize) push
\* {text: text.slice(i, i + chunkSize), source}.  The loop runs for
\* i = 0, chunkSize, 2*chunkSize, ... while i < text.length.
chunkText(text, source) ==
  LET starts == {i \in 0..Len(text) : i < Len(text) /\ i % chunkSize = 0}
  IN  [k \in 1..Cardinality(starts) |->
         [text   |-> slice(text, (k - 1) * chunkSize, (k - 1) * chunkSize + chunkSize),
          source |-> source]]

\* -------------------------------------------------------- requests' inputs

\* Uploaded files: originalname, its extension (path.extname, lower-cased) and
\* the buffer.  Each is shorter than a chunk; texts longer than a chunk are
\* chunked under SpecChunker.
FileA == [originalname |-> "a.txt", ext |-> ".txt", buffer |-> <<"a", "a", "b">>]
FileB == [originalname |-> "b.txt", ext |-> ".txt", buffer |-> <<"b", "c", "c">>]
FileX == [originalname |-> "x.bin", ext |-> ".bin", buffer |-> <<"a">>]
Files == {FileA, FileB, FileX}

\* The files a previous run of the server ingested, in order; two of them have
\* the same text.
PriorFiles ==
  << [originalname |-> "p1.txt", ext |-> ".txt", buffer |-> <<"a">>],
     [originalname |-> "p2.txt", ext |-> ".txt", buffer |-> <<"c", "c", "b">>],
     [originalname |-> "p3.txt", ext |-> ".txt", buffer |-> <<"a">>],
     [originalname |-> "p4.txt", ext |-> ".txt", buffer |-> <<"b">>],
     [originalname |-> "p5.txt", ext |-> ".txt", buffer |-> <<"c">>] >>

\* Chat prompts.
Prompts == {<<"a">>, <<"c", "c">>}

\* Outputs of the generation model.
Answers == {"answer one", " answer two "}

Calls == 1..MaxCalls

\* --------------------------------------------------- external collaborators

\* The embedder: a fixed function from a text to a vector (here the counts of
\* the three characters), one vector per text, order preserving.
embedQuery(text) ==
  << Cardinality({i \in DOMAIN text : text[i] = "a"}),
     Cardinality({i \in DOMAIN text : text[i] = "b"}),
     Cardinality({i \in DOMAIN text : text[i] = "c"}) >>

embedDocuments(texts) == [i \in DOMAIN texts |-> embedQuery(texts[i])]

\* Squared L2 distance (FAISS IndexFlatL2).
Distance(u, v) ==
  (u[1] - v[1]) * (u[1] - v[1]) + (u[2] - v[2]) * (u[2] - v[2]) + (u[3] - v[3]) * (u[3] - v[3])

\* FaissStore.load(VECTOR_INDEX_PATH): the stored documents when the index
\* directory exists and is readable; otherwise it throws, and kind says why.
FaissStore_load(p) ==
  IF p.exists /\ p.readable
    THEN [ok |-> TRUE, kind |-> "Loaded", store |-> p.docs]
    ELSE [ok |-> FALSE, kind |-> IF p.exists THEN "IndexCorrupt" ELSE "IndexNotFound",
          store |-> <<>>]

\* FaissStore.fromDocuments([], embeddings): a fresh store with no entry.
FaissStore_fromDocuments == <<>>

\* vectorStore.addDocuments(docs): embed every pageContent and append the
\* documents, with their vectors, in order.
addDocuments(store, docs) ==
  LET vectors == embedDocuments([i \in DOMAIN docs |-> docs[i].pageContent])
  IN  store \o [i \in DOMAIN docs |-> [pageContent |-> docs[i].pageContent,
                                       metadata    |-> docs[i].metadata,
                                       vector      |-> vectors[i]]]

\* vectorStore.save(VECTOR_INDEX_PATH): the directory holds the whole store.
FaissStore_save(store) == [exists |-> TRUE, readable |-> TRUE, docs |-> store]

\* vectorStore.similaritySearch(query, k): the min(k, N) entries nearest to
\* the query's vector, nearest first, equal distances in insertion order.
similaritySearch(store, query, k) ==
  LET q       == embedQuery(query)
      d(i)    == Distance(store[i].vector, q)
      rank(i) == Cardinality({j \in DOMAIN store : d(j) < d(i) \/ (d(j) = d(i) /\ j < i)})
      at(r)   == CHOOSE i \in DOMAIN store : rank(i) = r - 1
  IN  [r \in 1..Min(k, Len(store)) |-> store[at(r)]]

\* ------------------------------------------------------------------- state

VARIABLES
  persisted,   \* the vector.index directory: [exists, readable, docs]
  shared,      \* SHARED_FOLDER: the name and size of every file written by saveFile
  calls,       \* per request slot: the handler's position and its locals
  text,        \* the chunker alone: its input text
  chunked      \* the chunker alone: <<>> or <<the chunks it returned>>

vars == <<persisted, shared, calls, text, chunked>>

\* A request slot.  pc is the handler's position; name, chunks, vectorStore,
\* prompt, contexts and fullPrompt are the handlers' locals (emptied when the
\* function that owns them returns or throws); response is what the handler
\* answered.  loadResult (why the load threw), saved (this call wrote the
\* index), overlapped (another upload was in flight during this one),
\* invocations (calls of model.invoke) and modelOutput are history.
Idle ==
  [pc          |-> "idle",
   kind        |-> "none",
   name        |-> "",
   chunks      |-> <<>>,
   vectorStore |-> <<>>,
   loadResult  |-> "none",
   saved       |-> FALSE,
   overlapped  |-> FALSE,
   prompt      |-> <<>>,
   contexts    |-> <<>>,
   fullPrompt  |-> <<>>,
   invocations |-> 0,
   modelOutput |-> <<>>,
   response    |-> <<>>,
   error       |-> "none"]

NoIndex == [exists |-> FALSE, readable |-> FALSE, docs |-> <<>>]

\* Requests take the slots in order: slot c is free and every slot before it is taken.
NextSlot(c) == calls[c].pc = "idle" /\ \A o \in Calls : o < c => calls[o].pc # "idle"

UploadInFlight(c) == calls[c].kind = "upload" /\ calls[c].pc \notin {"idle", "done", "failed"}

\* ------------------------------------------------------------ uploadFile

\* app.service.ts:22-27
saveFile(folder, file) ==
  {f \in folder : f.name # file.originalname}
    \cup {[name |-> file.originalname, size |-> Len(file.buffer)]}

\* app.service.ts:48-80: the text of a .txt file is its content; any
\* extension outside pdf/txt/csv/json throws.
parseAndChunkFile(file) ==
  IF file.ext = ".txt"
    THEN [ok |-> TRUE, chunks |-> chunkText(file.buffer, file.originalname)]
    ELSE [ok |-> FALSE, chunks |-> <<>>]

\* app.service.ts:96-99
toDocuments(chunks) ==
  [i \in DOMAIN chunks |-> [pageContent |-> chunks[i].text,
                            metadata    |-> [source |-> chunks[i].source]]]

\* app.service.ts:90-94: try { load } catch { fromDocuments([]) }.
loadOrCreate(loaded) ==
  IF loaded.ok THEN loaded.store ELSE FaissStore_fromDocuments

\* app.controller.ts:12-14 and app.service.ts:86-91: the request arrives, the
\* file is saved, parsed and chunked, and embedAndStoreChunks starts loading.
uploadFile(c, file) ==
  /\ NextSlot(c)
  /\ shared' = saveFile(shared, file)
  /\ LET parsed == parseAndChunkFile(file)
     IN  calls' = [o \in Calls |->
           IF o = c
             THEN [calls[c] EXCEPT !.kind = "upload", !.name = file.originalname,
                                   !.chunks = parsed.chunks,
                                   !.overlapped = parsed.ok /\ \E u \in Calls : UploadInFlight(u),
                                   !.pc = IF parsed.ok THEN "load" ELSE "failed",
                                   !.error = IF parsed.ok THEN "none" ELSE "UnsupportedFileType"]
             ELSE IF parsed.ok /\ UploadInFlight(o)
               THEN [calls[o] EXCEPT !.overlapped = TRUE]
               ELSE calls[o]]
  /\ UNCHANGED <<persisted, text, chunked>>

\* app.service.ts:90-94
embedAndStoreChunks_load(c) ==
  /\ calls[c].kind = "upload" /\ calls[c].pc = "load"
  /\ LET loaded == FaissStore_load(persisted)
     IN  calls' = [calls EXCEPT ![c] =
           [@ EXCEPT !.loadResult = loaded.kind,
                     !.vectorStore = loadOrCreate(loaded),
                     !.pc = "add"]]
  /\ UNCHANGED <<persisted, shared, text, chunked>>

\* The call once addDocuments has thrown and the error was swallowed: it goes
\* on to save.
addDocumentsFailedSwallowed(call) ==
  [call EXCEPT !.pc = "save", !.error = "EmbeddingServiceError"]

\* The call once vectorStore.addDocuments has thrown: app.service.ts:100 has
\* no try around it, so the error leaves embedAndStoreChunks and uploadFile
\* (app.controller.ts:19), and the locals are gone.
addDocumentsFailed(call) ==
  [call EXCEPT !.pc = "failed", !.error = "EmbeddingServiceError",
               !.chunks = <<>>, !.vectorStore = <<>>]

\* app.service.ts:100: await vectorStore.addDocuments(docs); the embedder
\* answers and the documents are appended to the loaded store, or it fails.
embedAndStoreChunks_addDocuments(c) ==
  /\ calls[c].kind = "upload" /\ calls[c].pc = "add"
  /\ \/ calls' = [calls EXCEPT ![c] =
           [@ EXCEPT !.vectorStore = addDocuments(@, toDocuments(calls[c].chunks)),
                     !.pc = "save"]]
     \/ calls' = [calls EXCEPT ![c] = addDocumentsFailed(@)]
  /\ UNCHANGED <<persisted, shared, text, chunked>>

\* app.service.ts:101-102 and app.controller.ts:20: save, return true, and
\* uploadFile answers {success: true, name}; or the save throws.
embedAndStoreChunks_save(c) ==
  /\ calls[c].kind = "upload" /\ calls[c].pc = "save"
  /\ \/ /\ persisted' = FaissStore_save(calls[c].vectorStore)
        /\ calls' = [calls EXCEPT ![c] =
             [@ EXCEPT !.saved = TRUE, !.pc = "done",
                       !.chunks = <<>>, !.vectorStore = <<>>,
                       !.response = <<[success |-> TRUE, name |-> calls[c].name]>>]]
     \/ /\ calls' = [calls EXCEPT ![c] =
             [@ EXCEPT !.pc = "failed", !.error = "SaveError",
                       !.chunks = <<>>, !.vectorStore = <<>>]]
        /\ UNCHANGED persisted
  /\ UNCHANGED <<shared, text, chunked>>

\* The index directory becomes unreadable (a damaged or partly written file).
Corrupt ==
  /\ persisted.exists /\ persisted.readable
  /\ persisted' = [persisted EXCEPT !.readable = FALSE]
  /\ UNCHANGED <<shared, calls, text, chunked>>

RECURSIVE IngestAll(_, _)
\* The index after app.service.ts:86-103 ran to the end for each of the files
\* in turn, starting from the index p.
IngestAll(files, p) ==
  IF files = <<>> THEN p
  ELSE IngestAll(Tail(files),
         FaissStore_save(addDocuments(loadOrCreate(FaissStore_load(p)),
                                      toDocuments(parseAndChunkFile(Head(files)).chunks))))

RECURSIVE SaveAll(_, _)
\* The shared folder after app.service.ts:22-27 ran for each of the files.
SaveAll(files, folder) ==
  IF files = <<>> THEN folder ELSE SaveAll(Tail(files), saveFile(folder, Head(files)))

\* The index and the folder a previous run of the server left behind.
PriorIndex == IngestAll(PriorFiles, NoIndex)
PriorShared == SaveAll(PriorFiles, {})

\* The server starts with no index, or with the one a previous run left.
Init ==
  /\ \/ persisted = NoIndex /\ shared = {}
     \/ persisted = PriorIndex /\ shared = PriorShared
  /\ calls = [c \in Calls |-> Idle]
  /\ text = <<>>
  /\ chunked = <<>>

\* ------------------------------------------------------------------ chat

\* The results in reverse order.
toRetrievalResultsReversed(results) ==
  [i \in DOMAIN results |-> [text   |-> results[Len(results) + 1 - i].pageContent,
                             source |-> results[Len(results) + 1 - i].metadata.source]]

\* app.service.ts:117-120: {text: doc.pageContent, source: doc.metadata?.source || ''}.
\* Every stored document has a non-empty source (app.service.ts:76, 98), so
\* the || '' default is never taken.
toRetrievalResults(results) ==
  [i \in DOMAIN results |-> [text   |-> results[i].pageContent,
                             source |-> results[i].metadata.source]]

RECURSIVE join(_, _)
\* Array.prototype.join: the parts, a separator between each two.
join(parts, sep) ==
  IF Len(parts) = 0 THEN <<>>
  ELSE IF Len(parts) = 1 THEN parts[1]
  ELSE parts[1] \o sep \o join(Tail(parts), sep)

\* The label taken from the 0-based index itself.
renderContextZeroBased(ctx, i) ==
  <<"Source [", ToString(i), "] (", ctx.source, "):\n">> \o ctx.text

\* app.service.ts:128: `Source [${i+1}] (${ctx.source}):\n${ctx.text}`, i the
\* 0-based index of the context.  A prompt is a sequence of tokens: the
\* template's literal pieces, the interpolated number and source, and the
\* characters of the texts.
renderContext(ctx, i) ==
  <<"Source [", ToString(i + 1), "] (", ctx.source, "):\n">> \o ctx.text

\* app.service.ts:128-129
buildPrompt(prompt, contexts) ==
  LET contextText == join([i \in DOMAIN contexts |-> renderContext(contexts[i], i - 1)],
                          <<"\n\n">>)
  IN  <<"You are an AI assistant. Use the following context to answer the user's question. Cite the sources in your answer.\n\nContext:\n">>
        \o contextText \o <<"\n\nQuestion: ">> \o prompt

\* app.service.ts:136-139: {answer: response.content, contexts}
augmentedAnswer(response, contexts) ==
  [answer |-> response.content, contexts |-> contexts]

\* app.controller.ts:29-30 and app.service.ts:108-112: the request arrives and
\* retrieveRelevantChunks starts loading the index.
chat(c, prompt) ==
  /\ NextSlot(c)
  /\ calls' = [calls EXCEPT ![c] = [@ EXCEPT !.kind = "chat", !.prompt = prompt, !.pc = "load"]]
  /\ UNCHANGED <<persisted, shared, text, chunked>>

\* The call once FaissStore.load has thrown and the error was let through.
retrieveLoadFailedThrows(call, kind) ==
  [call EXCEPT !.loadResult = kind, !.pc = "failed", !.error = kind]

\* The call once FaissStore.load has thrown in retrieveRelevantChunks
\* (app.service.ts:113-115): catch { return []; }, whatever was thrown.
retrieveLoadFailed(call, kind) ==
  [call EXCEPT !.loadResult = kind, !.contexts = <<>>, !.pc = "generate"]

\* app.service.ts:111-115
retrieveRelevantChunks_load(c) ==
  /\ calls[c].kind = "chat" /\ calls[c].pc = "load"
  /\ LET loaded == FaissStore_load(persisted)
     IN  calls' = [calls EXCEPT ![c] =
           IF loaded.ok
             THEN [@ EXCEPT !.loadResult = loaded.kind, !.vectorStore = loaded.store,
                            !.pc = "search"]
             ELSE retrieveLoadFailed(@, loaded.kind)]
  /\ UNCHANGED <<persisted, shared, text, chunked>>

\* app.service.ts:116-120: the query is embedded and searched for, and the
\* results are projected and returned to chat; or the embedder fails and the
\* error leaves retrieveRelevantChunks and chat.
retrieveRelevantChunks_search(c) ==
  /\ calls[c].kind = "chat" /\ calls[c].pc = "search"
  /\ \/ calls' = [calls EXCEPT ![c] =
           [@ EXCEPT !.contexts = toRetrievalResults(
                                    similaritySearch(calls[c].vectorStore, calls[c].prompt, TopK)),
                     !.vectorStore = <<>>,
                     !.pc = "generate"]]
     \/ calls' = [calls EXCEPT ![c] =
           [@ EXCEPT !.pc = "failed", !.error = "EmbeddingServiceError", !.vectorStore = <<>>]]
  /\ UNCHANGED <<persisted, shared, text, chunked>>

\* app.service.ts:128-135: the prompt is built and sent to the model.
generateAnswerWithContext_invoke(c) ==
  /\ calls[c].kind = "chat" /\ calls[c].pc = "generate"
  /\ calls' = [calls EXCEPT ![c] =
       [@ EXCEPT !.fullPrompt = buildPrompt(calls[c].prompt, calls[c].contexts),
                 !.invocations = @ + 1,
                 !.pc = "invoke"]]
  /\ UNCHANGED <<persisted, shared, text, chunked>>

\* The call once model.invoke has thrown and the prompt is to be sent again.
invokeFailedRetry(call) ==
  [call EXCEPT !.pc = "generate"]

\* The call once model.invoke has thrown: the error leaves
\* generateAnswerWithContext (app.service.ts:135 has no try around it) and
\* chat, and the locals are gone.
invokeFailed(call) ==
  [call EXCEPT !.pc = "failed", !.error = "GenerationServiceError",
               !.contexts = <<>>, !.fullPrompt = <<>>]

\* app.service.ts:135-139 and app.controller.ts:31-32: the model answers and
\* chat returns the result; or the invocation fails.
generateAnswerWithContext_return(c) ==
  /\ calls[c].kind = "chat" /\ calls[c].pc = "invoke"
  /\ \/ \E out \in Answers :
          calls' = [calls EXCEPT ![c] =
            [@ EXCEPT !.modelOutput = <<[content |-> out]>>,
                      !.response = <<augmentedAnswer([content |-> out], calls[c].contexts)>>,
                      !.contexts = <<>>, !.fullPrompt = <<>>,
                      !.pc = "done"]]
     \/ calls' = [calls EXCEPT ![c] = invokeFailed(@)]
  /\ UNCHANGED <<persisted, shared, text, chunked>>

\* ------------------------------------------------------------ specification

Next ==
  \/ \E c \in Calls, file \in Files : uploadFile(c, file)
  \/ \E c \in Calls : embedAndStoreChunks_load(c)
  \/ \E c \in Calls : embedAndStoreChunks_addDocuments(c)
  \/ \E c \in Calls : embedAndStoreChunks_save(c)
  \/ \E c \in Calls, prompt \in Prompts : chat(c, prompt)
  \/ \E c \in Calls : retrieveRelevantChunks_load(c)
  \/ \E c \in Calls : retrieveRelevantChunks_search(c)
  \/ \E c \in Calls : generateAnswerWithContext_invoke(c)
  \/ \E c \in Calls : generateAnswerWithContext_return(c)
  \/ Corrupt

Spec == Init /\ [][Next]_vars

\* ---------------------------------------------------------- the chunker alone

\* The longest text handed to the chunker: one character past MaxChunks chunks.
MaxTextLen == MaxChunks * chunkSize + 1

\* The chunker is handed a text of every length from 0 to MaxTextLen.
InitChunker ==
  /\ persisted = NoIndex
  /\ shared = {}
  /\ calls = [c \in Calls |-> Idle]
  /\ text \in {MkText(n, 1) : n \in 0..MaxTextLen}
  /\ chunked = <<>>

\* app.service.ts:71-79 applied to text, with source "doc".
ChunkStep ==
  /\ chunked = <<>>
  /\ chunked' = <<chunkText(text, "doc")>>
  /\ UNCHANGED <<persisted, shared, calls, text>>

NextChunker == ChunkStep

SpecChunker == InitChunker /\ [][NextChunker]_vars

\* ------------------------------------------------------------------ claims

\* The chunks held by a persisted index, in order.
Entries(p) ==
  [i \in DOMAIN p.docs |-> [text |-> p.docs[i].pageContent, source |-> p.docs[i].metadata.source]]

\* The chunks of the uploaded file called name.
ChunksOfFile(name) ==
  chunkText((CHOOSE f \in Files : f.originalname = name).buffer, name)

IsUpload(c) == calls[c].kind = "upload"
IsChat(c) == calls[c].kind = "chat"

\* C1: two concurrent ingestion calls of distinct documents do not interleave
\* their load -> add -> save sequences, so once both have returned success the
\* persisted index holds every chunk of both documents.
C1_ConcurrentIngestionKeepsBoth ==
  \A c1, c2 \in Calls :
    ( /\ c1 # c2
      /\ IsUpload(c1) /\ IsUpload(c2)
      /\ calls[c1].pc = "done" /\ calls[c2].pc = "done"
      /\ calls[c1].overlapped /\ calls[c2].overlapped
      /\ calls[c1].name # calls[c2].name )
    => /\ persisted.exists
       /\ Range(ChunksOfFile(calls[c1].name)) \cup Range(ChunksOfFile(calls[c2].name))
            \subseteq Range(Entries(persisted))

\* C2: an ingestion call that finds the persisted index corrupt fails; it
\* never returns success and never writes the index.
C2_CorruptIndexFailsIngestion ==
  \A c \in Calls :
    (IsUpload(c) /\ calls[c].loadResult = "IndexCorrupt")
      => (~calls[c].saved /\ calls[c].pc # "done")

\* C3: a query that finds the persisted index corrupt ends in an error; its
\* retrieval never returns (an empty result) to chat.
C3_CorruptIndexFailsQuery ==
  \A c \in Calls :
    (IsChat(c) /\ calls[c].loadResult = "IndexCorrupt")
      => calls[c].pc \notin {"generate", "invoke", "done"}

\* C4: when the embedder fails during an ingestion call, the call ends in that
\* error, uploadFile answers nothing, the call never saves, and the step in
\* which the embedder fails leaves the persisted index as it is.
C4_EmbedderFailurePropagates ==
  /\ [](\A c \in Calls :
          (IsUpload(c) /\ calls[c].error = "EmbeddingServiceError")
            => (calls[c].pc = "failed" /\ ~calls[c].saved /\ calls[c].response = <<>>))
  /\ [][\A c \in Calls :
          (IsUpload(c) /\ calls[c].pc = "add" /\ calls'[c].pc = "failed")
            => (calls'[c].error = "EmbeddingServiceError" /\ persisted' = persisted)]_vars

\* C4's case: an upload whose embedding failed, the index an earlier upload
\* saved still in place.
C4_Witness ==
  \E c, o \in Calls :
    /\ IsUpload(c) /\ calls[c].error = "EmbeddingServiceError" /\ calls[c].pc = "failed"
    /\ IsUpload(o) /\ calls[o].pc = "done"
    /\ persisted.exists /\ Len(persisted.docs) > 0

\* C5: every successful ingestion call that overlaps no other re-persists the
\* previous entries unchanged, followed by its own chunks in document order.
C5_SuccessfulIngestionAppends ==
  [][\A c \in Calls :
       (IsUpload(c) /\ calls[c].pc = "save" /\ calls'[c].pc = "done" /\ ~calls[c].overlapped)
         => /\ persisted'.exists
            /\ Entries(persisted') = Entries(persisted) \o calls[c].chunks]_vars

RECURSIVE ConcatTexts(_)
ConcatTexts(chunks) ==
  IF chunks = <<>> THEN <<>> ELSE Head(chunks).text \o ConcatTexts(Tail(chunks))

\* C6: a text of length L yields ceil(L / chunkSize) chunks (none when L = 0),
\* every chunk but possibly the last of exactly chunkSize characters, in
\* document order, and their texts concatenated give the text back.
C6_Chunking ==
  chunked # <<>> =>
    LET ch == chunked[1]
        L  == Len(text)
        n  == Len(ch)
    IN  /\ n = (L + chunkSize - 1) \div chunkSize
        /\ \A k \in 1..(n - 1) : Len(ch[k].text) = chunkSize
        /\ n > 0 => (Len(ch[n].text) >= 1 /\ Len(ch[n].text) <= chunkSize)
        /\ \A k \in 1..n : /\ ch[k].source = "doc"
                           /\ ch[k].text = SubSeq(text, (k - 1) * chunkSize + 1,
                                                  Min(k * chunkSize, L))
        /\ ConcatTexts(ch) = text

\* C6's case: the longest text, chunked into MaxChunks full chunks and a last
\* chunk of one character.
C6_Witness ==
  /\ chunked # <<>>
  /\ Len(text) = MaxTextLen
  /\ Len(chunked[1]) = MaxChunks + 1
  /\ Len(chunked[1][MaxChunks + 1].text) = 1

\* C7: a query whose load finds no persisted index gets the empty sequence
\* from retrieval, and retrieval raises no error: the chat goes on to the
\* model, and only the model's failure can fail it.
C7_NoIndexGivesEmpty ==
  \A c \in Calls :
    (IsChat(c) /\ calls[c].loadResult = "IndexNotFound")
      => /\ calls[c].pc \in {"generate", "invoke", "done", "failed"}
         /\ calls[c].pc \in {"generate", "invoke"} => calls[c].contexts = <<>>
         /\ calls[c].pc = "done" => calls[c].response[1].contexts = <<>>
         /\ calls[c].pc = "failed" => calls[c].error = "GenerationServiceError"

\* C7's case: two queries, with different prompts, both answered from no index.
C7_Witness ==
  \E c1, c2 \in Calls :
    /\ c1 # c2 /\ IsChat(c1) /\ IsChat(c2)
    /\ calls[c1].prompt # calls[c2].prompt
    /\ calls[c1].loadResult = "IndexNotFound" /\ calls[c2].loadResult = "IndexNotFound"
    /\ calls[c1].pc = "done" /\ calls[c2].pc = "generate"
    /\ ~persisted.exists

\* Entry i of the store is ranked before entry j for the query: it is nearer,
\* or as near and added earlier.
Before(store, query, i, j) ==
  LET q == embedQuery(query)
  IN  \/ Distance(store[i].vector, q) < Distance(store[j].vector, q)
      \/ Distance(store[i].vector, q) = Distance(store[j].vector, q) /\ i < j

\* res is the best min(N, TopK) entries of the store for the query, best
\* first, each as {text, source}.
IsTopK(store, query, res) ==
  /\ Len(res) = Min(Len(store), TopK)
  /\ \A r \in 1..Len(res) :
       \E i \in DOMAIN store :
         /\ Cardinality({j \in DOMAIN store : Before(store, query, j, i)}) = r - 1
         /\ res[r] = [text |-> store[i].pageContent, source |-> store[i].metadata.source]

Positions(p, tok) == {i \in DOMAIN p : p[i] = tok}

\* The k-th smallest element of the set S of numbers.
Nth(S, k) == CHOOSE i \in S : Cardinality({j \in S : j < i}) = k - 1

\* The contexts read back from a prompt: for every "Source [" token, the label
\* and the source that follow it and the text up to the next context's
\* separator or, for the last one, up to the question.
ParsedContexts(p) ==
  LET S == Positions(p, "Source [")
      Q == Nth(Positions(p, "\n\nQuestion: "), 1)
      n == Cardinality(S)
      last(k) == IF k < n THEN Nth(S, k + 1) - 2 ELSE Q - 1
  IN  [k \in 1..n |->
         [label  |-> p[Nth(S, k) + 1],
          source |-> p[Nth(S, k) + 3],
          text   |-> SubSeq(p, Nth(S, k) + 5, last(k))]]

\* The question read back from a prompt.
ParsedQuestion(p) ==
  SubSeq(p, Nth(Positions(p, "\n\nQuestion: "), 1) + 1, Len(p))

\* C9: a successful generateAnswerWithContext returns the contexts it was
\* given, unchanged, and the prompt it sent labels them Source [1], [2], ...
\* in that order, so citation i is contexts[i - 1]; the question in the prompt
\* is the chat's prompt.
C9_ContextsAndCitations ==
  [][\A c \in Calls :
       (IsChat(c) /\ calls[c].pc = "invoke" /\ calls'[c].pc = "done")
         => LET ret == calls'[c].response[1]
            IN  /\ ret.contexts = calls[c].contexts
                /\ ParsedContexts(calls[c].fullPrompt)
                     = [i \in DOMAIN ret.contexts |->
                          [label  |-> ToString(i),
                           source |-> ret.contexts[i].source,
                           text   |-> ret.contexts[i].text]]
                /\ ParsedQuestion(calls[c].fullPrompt) = calls[c].prompt]_vars

\* C9's case: a chat answered with TopK contexts from different sources.
C9_Witness ==
  \E c \in Calls :
    /\ IsChat(c) /\ calls[c].pc = "done"
    /\ Len(calls[c].response[1].contexts) = TopK
    /\ calls[c].response[1].contexts[1].source # calls[c].response[1].contexts[2].source

\* C10: a generateAnswerWithContext call invokes the model exactly once; when
\* the invocation fails the call fails with that error and answers nothing;
\* when it succeeds the answer is the model's output.
C10_SingleInvocation ==
  \A c \in Calls :
    IsChat(c) =>
      /\ calls[c].invocations <= 1
      /\ calls[c].pc = "invoke" => calls[c].invocations = 1
      /\ calls[c].pc = "done"
           => /\ calls[c].invocations = 1
              /\ calls[c].response[1].answer = calls[c].modelOutput[1].content
      /\ (calls[c].pc = "failed" /\ calls[c].error = "GenerationServiceError")
           => (calls[c].invocations = 1 /\ calls[c].response = <<>>)

\* C10's case: one chat whose invocation failed and one that was answered.
C10_Witness ==
  \E c1, c2 \in Calls :
    /\ IsChat(c1) /\ calls[c1].pc = "failed" /\ calls[c1].error = "GenerationServiceError"
    /\ IsChat(c2) /\ calls[c2].pc = "done" /\ calls[c2].response[1].answer = " answer two "

====
